---- MODULE Spec2Model ----
(***************************************************************************)
(* Token issuance and verification of the auth-api service                 *)
(* (services/auth-api/src/auth/jkws.rs) and the role-to-scope mapping of   *)
(* the login handler (services/auth-api/src/http/auth/login.rs).           *)
(*                                                                         *)
(* An AuthService holds two PEM strings and nothing else.  Tokens are the  *)
(* compact JWTs produced by jsonwebtoken::encode; a token is modelled by   *)
(* its three parts: the header object, the payload object and the          *)
(* signature.  A signature is modelled by what determines whether          *)
(* verification succeeds: the algorithm it was computed with, the key that *)
(* computed it, and the message (header and payload) it covers.            *)
(***************************************************************************)
EXTENDS Integers, Sequences, FiniteSets, TLC

VARIABLES config, svc, now, held, last, pc, fs, keygen, tasks, users

vars == <<config, svc, now, held, last, pc, fs, keygen, tasks, users>>

(***************************************************************************)
(* Bounds of the model.                                                    *)
(***************************************************************************)
\* number of tokens that clients hold at the same time
MaxHeld == 1
\* the instant (seconds since the epoch) at which the services start
StartTime == 1000

\* two processes running the service
Instances == {1, 2}
\* RSA key pairs that exist; a key pair is named by its modulus
KeyIds == {"k1", "k2"}
\* values of JWT_EXPIRATION_HOURS
ExpirationHours == {1, 24}
\* subjects: a user id (a 128-bit value, abbreviated) and the e-mail of the
\* same user row
Subjects == {[id |-> 1, email |-> "a@b.com"], [id |-> 2, email |-> "c@d.com"]}
\* values of the jti that Uuid::new_v4() may draw
JtiSpace == {"3f0e7c1a-0000-4000-8000-000000000001",
             "9b2d4e6f-0000-4000-8000-000000000002"}

(***************************************************************************)
(* Result<T, E>                                                            *)
(***************************************************************************)
Ok(v) == [ok |-> TRUE, err |-> "", val |-> v]

Err(e) == [ok |-> FALSE, err |-> e, val |-> <<>>]

(***************************************************************************)
(* enum Scope, enum TokenType (serialized by serde as the variant name)    *)
(***************************************************************************)
Scope == {"Viewer", "Manager", "Admin"}

TokenType == {"Access", "Refresh"}

\* scope lists given to gen_access_token
ScopeLists == {<<"Viewer", "Manager">>, <<"Admin">>}

(***************************************************************************)
(* Key material.  A PEM string is modelled by its label and the key pair   *)
(* it encodes.                                                             *)
(***************************************************************************)
PrivatePem(k) == [label |-> "PRIVATE KEY", key |-> k]

PublicPem(k) == [label |-> "PUBLIC KEY", key |-> k]

\* Option::None for a PEM setting of the configuration
NoPem == [label |-> "none", key |-> ""]

\* a setting whose text is not the PEM of a key
MalformedPem == [label |-> "garbage", key |-> ""]

\* the modulus of a key pair (abbreviated: the keys of the code have 2048
\* bits)
Modulus(k) ==
    CASE k = "k1" -> 3233
      [] k = "k2" -> 64507
      [] OTHER -> 0

\* the private exponent of a key pair
PrivateExponent(k) ==
    CASE k = "k1" -> 2753
      [] k = "k2" -> 41473
      [] OTHER -> 0

\* the prime factors of the modulus of a key pair
Primes(k) ==
    CASE k = "k1" -> {61, 53}
      [] k = "k2" -> {251, 257}
      [] OTHER -> {}

\* the public exponent RsaPrivateKey::new chooses
PublicExponent == 65537

\* BigUint::to_bytes_be: the big-endian bytes, without leading zeros
RECURSIVE to_bytes_be(_)
to_bytes_be(n) ==
    IF n < 256 THEN <<n>> ELSE Append(to_bytes_be(n \div 256), n % 256)

\* the standard base64 alphabet
StandardAlphabet ==
            <<"A","B","C","D","E","F","G","H","I","J","K","L","M","N","O","P",
              "Q","R","S","T","U","V","W","X","Y","Z","a","b","c","d","e","f",
              "g","h","i","j","k","l","m","n","o","p","q","r","s","t","u","v",
              "w","x","y","z","0","1","2","3","4","5","6","7","8","9","+","/">>

\* the URL-safe base64 alphabet
Alphabet == <<"A","B","C","D","E","F","G","H","I","J","K","L","M","N","O","P",
              "Q","R","S","T","U","V","W","X","Y","Z","a","b","c","d","e","f",
              "g","h","i","j","k","l","m","n","o","p","q","r","s","t","u","v",
              "w","x","y","z","0","1","2","3","4","5","6","7","8","9","-","_">>

Sextet(v) == Alphabet[v + 1]

\* URL_SAFE_NO_PAD.encode: three bytes to four characters, no padding
RECURSIVE URL_SAFE_NO_PAD_encode(_)
URL_SAFE_NO_PAD_encode(bytes) ==
    IF Len(bytes) = 0 THEN ""
    ELSE IF Len(bytes) = 1
         THEN Sextet(bytes[1] \div 4) \o Sextet((bytes[1] % 4) * 16)
    ELSE IF Len(bytes) = 2
         THEN Sextet(bytes[1] \div 4)
              \o Sextet((bytes[1] % 4) * 16 + bytes[2] \div 16)
              \o Sextet((bytes[2] % 16) * 4)
    ELSE Sextet(bytes[1] \div 4)
         \o Sextet((bytes[1] % 4) * 16 + bytes[2] \div 16)
         \o Sextet((bytes[2] % 16) * 4 + bytes[3] \div 64)
         \o Sextet(bytes[3] % 64)
         \o URL_SAFE_NO_PAD_encode(SubSeq(bytes, 4, Len(bytes)))

\* rsa::RsaPrivateKey::from_pkcs8_pem
RsaPrivateKey_from_pkcs8_pem(pem) ==
    IF pem.label = "PRIVATE KEY" THEN Ok(pem.key) ELSE Err("KeyFormat")

\* rsa::RsaPublicKey::from_public_key_pem
RsaPublicKey_from_public_key_pem(pem) ==
    IF pem.label = "PUBLIC KEY" THEN Ok(pem.key) ELSE Err("KeyFormat")

\* Uuid::to_string: the hyphenated lower-case form
to_string(u) ==
    CASE u = 1 -> "11111111-1111-1111-1111-111111111111"
      [] u = 2 -> "22222222-2222-2222-2222-222222222222"
      [] OTHER -> "00000000-0000-0000-0000-000000000000"

\* AuthService::new: the expiration setting is dropped
new(private_key, jwt_expiration_hours, public_key) ==
    [private_key |-> private_key, public_key |-> public_key]

(***************************************************************************)
(* Key provisioning: from_config and generate_key_pair.  Each returns its  *)
(* result together with the files it wrote, in order.                      *)
(***************************************************************************)
\* a derivation that returns the public key of another pair
extract_public_key_from_private_other(private_key_pem) ==
    LET private_key == RsaPrivateKey_from_pkcs8_pem(private_key_pem)
    IN IF private_key.ok
       THEN Ok(PublicPem(CHOOSE k \in {"k1", "k2"} : k # private_key.val))
       ELSE private_key

\* AuthService::extract_public_key_from_private
extract_public_key_from_private(private_key_pem) ==
    LET private_key == RsaPrivateKey_from_pkcs8_pem(private_key_pem)
    IN IF private_key.ok THEN Ok(PublicPem(private_key.val)) ELSE private_key

\* AuthService::create_public_keys_json
create_public_keys_json(public_key_pem) ==
    LET public_key == RsaPublicKey_from_public_key_pem(public_key_pem)
    IN IF ~public_key.ok THEN [res |-> public_key, writes |-> <<>>]
       ELSE [res |-> Ok(<<>>),
             writes |-> <<[path |-> "public_keys.json",
                           data |-> [keys |-> <<
                               [kty |-> "RSA",
                                kid |-> "exchange_api_key_1",
                                use |-> "sig",
                                alg |-> "RS256",
                                n |-> URL_SAFE_NO_PAD_encode(
                                          to_bytes_be(Modulus(public_key.val))),
                                e |-> URL_SAFE_NO_PAD_encode(
                                          to_bytes_be(PublicExponent))]>>]]>>]

\* misc::keypair::generate_key_pair at instant t; k is the key pair that
\* RsaPrivateKey::new drew
generate_key_pair(k, t) ==
    [res |-> Ok([private_key |-> PrivatePem(k), public_key |-> PublicPem(k)]),
     writes |-> <<[path |-> "keys.json",
                   data |-> [private_key |-> PrivatePem(k),
                             public_key |-> PublicPem(k),
                             key_id |-> "exchange_api_key_1",
                             algorithm |-> "RS256",
                             generated_at |-> t]],
                  [path |-> "public_keys.json",
                   data |-> [keys |-> <<
                       [kty |-> "RSA",
                        kid |-> "exchange_api_key_1",
                        use |-> "sig",
                        alg |-> "RS256",
                        n |-> URL_SAFE_NO_PAD_encode(to_bytes_be(Modulus(k))),
                        e |-> URL_SAFE_NO_PAD_encode(
                                  to_bytes_be(PublicExponent))]>>]]>>]

\* from_config writing no file when the private key is supplied
from_config_silent(cfg, k, t) ==
    IF cfg.private_key # NoPem
    THEN LET private_key == cfg.private_key
             public_key == IF cfg.public_key # NoPem
                           THEN Ok(cfg.public_key)
                           ELSE extract_public_key_from_private(private_key)
         IN IF ~public_key.ok
            THEN [res |-> public_key, writes |-> <<>>, keygen |-> 0]
            ELSE [res |-> Ok(new(private_key, cfg.jwt_expiration_hours,
                                 public_key.val)),
                  writes |-> <<>>, keygen |-> 0]
    ELSE LET keys == generate_key_pair(k, t)
         IN [res |-> Ok(new(keys.res.val.private_key, cfg.jwt_expiration_hours,
                            keys.res.val.public_key)),
             writes |-> keys.writes, keygen |-> 1]

\* AuthService::from_config; keygen counts the calls of generate_key_pair.
\* A PEM value stands for the text after replace("\\n", "\n").
from_config(cfg, k, t) ==
    IF cfg.private_key # NoPem
    THEN LET private_key == cfg.private_key
             public_key == IF cfg.public_key # NoPem
                           THEN Ok(cfg.public_key)
                           ELSE extract_public_key_from_private(private_key)
         IN IF ~public_key.ok
            THEN [res |-> public_key, writes |-> <<>>, keygen |-> 0]
            ELSE LET written == create_public_keys_json(public_key.val)
                 IN IF ~written.res.ok
                    THEN [res |-> written.res, writes |-> <<>>, keygen |-> 0]
                    ELSE [res |-> Ok(new(private_key, cfg.jwt_expiration_hours,
                                         public_key.val)),
                          writes |-> written.writes, keygen |-> 0]
    ELSE LET keys == generate_key_pair(k, t)
         IN [res |-> Ok(new(keys.res.val.private_key, cfg.jwt_expiration_hours,
                            keys.res.val.public_key)),
             writes |-> keys.writes, keygen |-> 1]

(***************************************************************************)
(* jsonwebtoken: keys, signing, encode                                     *)
(***************************************************************************)
\* EncodingKey::from_rsa_pem
EncodingKey_from_rsa_pem(pem) ==
    IF pem.label = "PRIVATE KEY" THEN Ok(pem.key) ELSE Err("InvalidKeyFormat")

\* DecodingKey::from_rsa_pem
DecodingKey_from_rsa_pem(pem) ==
    IF pem.label = "PUBLIC KEY" THEN Ok(pem.key) ELSE Err("InvalidKeyFormat")

\* the signature of message msg under algorithm alg by key pair k
Sign(alg, k, msg) == [alg |-> alg, key |-> k, msg |-> msg]

\* Header::new(Algorithm::RS256) with kid = Some("exchange_api_key_1")
Header == [alg |-> "RS256", kid |-> "exchange_api_key_1"]

\* jsonwebtoken::encode(&header, &claims, &key)
encode(header, claims, k) ==
    [header |-> header, payload |-> claims,
     sig |-> Sign(header.alg, k, <<header, claims>>)]

\* a slip: Duration::hours(15)
AccessLifetimeHours == 15 * 60 * 60

\* Duration::minutes(15), in seconds
AccessLifetime == 15 * 60

\* Duration::days(30), in seconds
RefreshLifetime == 30 * 24 * 60 * 60

\* a slip: sub and email exchanged
gen_access_token_swapped(i, user_id, email, scopes, t) ==
    LET claims == [sub |-> email,
                   email |-> to_string(user_id),
                   exp |-> t + AccessLifetime,
                   iat |-> t,
                   iss |-> "exchange_api",
                   token_type |-> "Access",
                   scope |-> scopes]
        key == EncodingKey_from_rsa_pem(svc[i].private_key)
    IN IF key.ok THEN Ok(encode(Header, claims, key.val)) ELSE Err(key.err)

\* a slip: the configured expiration is honoured
gen_access_token_configured(i, user_id, email, scopes, t) ==
    LET claims == [sub |-> to_string(user_id),
                   email |-> email,
                   exp |-> t + config[i].jwt_expiration_hours * 3600,
                   iat |-> t,
                   iss |-> "exchange_api",
                   token_type |-> "Access",
                   scope |-> scopes]
        key == EncodingKey_from_rsa_pem(svc[i].private_key)
    IN IF key.ok THEN Ok(encode(Header, claims, key.val)) ELSE Err(key.err)

\* AuthService::gen_access_token, called on instance i at instant t
gen_access_token(i, user_id, email, scopes, t) ==
    LET claims == [sub |-> to_string(user_id),
                   email |-> email,
                   exp |-> t + AccessLifetime,
                   iat |-> t,
                   iss |-> "exchange_api",
                   token_type |-> "Access",
                   scope |-> scopes]
        key == EncodingKey_from_rsa_pem(svc[i].private_key)
    IN IF key.ok THEN Ok(encode(Header, claims, key.val)) ELSE Err(key.err)

\* AuthService::gen_refresh_token; jti is the value Uuid::new_v4() drew
gen_refresh_token(i, user_id, email, jti, t) ==
    LET claims == [sub |-> to_string(user_id),
                   email |-> email,
                   exp |-> t + RefreshLifetime,
                   iat |-> t,
                   iss |-> "exchange_api",
                   token_type |-> "Refresh",
                   jti |-> jti]
        key == EncodingKey_from_rsa_pem(svc[i].private_key)
    IN IF key.ok THEN Ok(encode(Header, claims, key.val)) ELSE Err(key.err)

(***************************************************************************)
(* jsonwebtoken: decode                                                    *)
(***************************************************************************)
\* the algorithms the Algorithm enum can parse from a header
KnownAlgorithms == {"HS256", "HS384", "HS512", "ES256", "ES384", "RS256",
                    "RS384", "RS512", "PS256", "PS384", "PS512", "EdDSA"}

\* a slip: every RSA algorithm is allowed
RsaFamilyValidation ==
    [algorithms |-> {"RS256", "RS384", "RS512"}, leeway |-> 60,
     validate_exp |-> TRUE]

\* Validation::default() with algorithms = vec![RS256].  The default (of
\* jsonwebtoken 8 and later) validates exp with a leeway of 60 seconds; the
\* code changes neither.
Rs256Validation ==
    [algorithms |-> {"RS256"}, leeway |-> 60, validate_exp |-> TRUE]

\* the fields of struct AccessTokenClaims
AccessTokenClaims == {"sub", "email", "exp", "iat", "iss", "token_type", "scope"}

\* the fields of struct RefreshTokenClaims
RefreshTokenClaims == {"sub", "email", "exp", "iat", "iss", "token_type", "jti"}

\* serde: every field of the struct is required, unknown fields are ignored
Deserialize(fields, payload) ==
    IF /\ fields \subseteq DOMAIN payload
       /\ payload.token_type \in TokenType
       /\ ("scope" \in fields =>
             \A n \in DOMAIN payload.scope : payload.scope[n] \in Scope)
    THEN Ok([f \in fields |-> payload[f]])
    ELSE Err("Json")

\* a slip: signature validation disabled
verify_disabled(sig, msg, k, alg) == TRUE

\* crypto::verify: the signature was made with this algorithm, by the
\* private half of this key, over this message
verify(sig, msg, k, alg) == sig.alg = alg /\ sig.key = k /\ sig.msg = msg

\* jsonwebtoken::decode::<T>(token, &key, &validation) at instant t:
\* header, algorithm, signature, deserialization into T, then exp
decode(fields, token, k, validation, t) ==
    IF token.header.alg \notin KnownAlgorithms THEN Err("Json")
    ELSE IF token.header.alg \notin validation.algorithms
         THEN Err("InvalidAlgorithm")
    ELSE IF ~verify(token.sig, <<token.header, token.payload>>, k,
                    token.header.alg)
         THEN Err("InvalidSignature")
    ELSE LET claims == Deserialize(fields, token.payload)
         IN IF ~claims.ok THEN claims
            ELSE IF /\ validation.validate_exp
                    /\ token.payload.exp < t - validation.leeway
                 THEN Err("ExpiredSignature")
            ELSE claims

\* AuthService::verify_refresh_token
verify_refresh_token(i, token, t) ==
    LET key == DecodingKey_from_rsa_pem(svc[i].public_key)
    IN IF ~key.ok THEN Err(key.err)
       ELSE LET decoded == decode(RefreshTokenClaims, token, key.val,
                                  Rs256Validation, t)
            IN IF ~decoded.ok THEN decoded
               ELSE IF decoded.val.token_type # "Refresh"
                    THEN Err("InvalidToken")
               ELSE decoded

\* a slip: verify_access_token pasted from verify_refresh_token
verify_access_token_pasted(i, token, t) == verify_refresh_token(i, token, t)

\* AuthService::verify_access_token
verify_access_token(i, token, t) ==
    LET key == DecodingKey_from_rsa_pem(svc[i].public_key)
    IN IF ~key.ok THEN Err(key.err)
       ELSE LET decoded == decode(AccessTokenClaims, token, key.val,
                                  Rs256Validation, t)
            IN IF ~decoded.ok THEN decoded
               ELSE IF decoded.val.token_type # "Access"
                    THEN Err("InvalidToken")
               ELSE decoded

(***************************************************************************)
(* login.rs                                                                *)
(***************************************************************************)
\* role strings stored for a user
Roles == {"admin", "manager", "viewer", "", "Admin", "MANAGER", "owner"}

\* a slip: the role is matched without regard to case
determine_user_scopes_nocase(role) ==
    CASE role \in {"admin", "Admin"} -> <<"Viewer", "Manager", "Admin">>
      [] role \in {"manager", "MANAGER"} -> <<"Viewer", "Manager">>
      [] OTHER -> <<"Viewer">>

determine_user_scopes(role) ==
    CASE role = "admin" -> <<"Viewer", "Manager", "Admin">>
      [] role = "manager" -> <<"Viewer", "Manager">>
      [] role = "viewer" -> <<"Viewer">>
      [] OTHER -> <<"Viewer">>

\* AuthService::gen_token_pair at instant t; jti is the uuid that
\* gen_refresh_token draws
gen_token_pair(i, user_id, email, scopes, jti, t) ==
    LET access_token == gen_access_token(i, user_id, email, scopes, t)
    IN IF ~access_token.ok THEN access_token
       ELSE LET refresh_token == gen_refresh_token(i, user_id, email, jti, t)
            IN IF ~refresh_token.ok THEN refresh_token
               ELSE Ok(<<access_token.val, refresh_token.val>>)

\* a parse that reads any text it does not know as the nil UUID
parse_str_nil(s) ==
    IF \E u \in {x.id : x \in Subjects} : to_string(u) = s
    THEN Ok(CHOOSE u \in {x.id : x \in Subjects} : to_string(u) = s)
    ELSE Ok(0)

\* Uuid::parse_str, on the subjects of the model and on other text
parse_str(s) ==
    IF \E u \in {x.id : x \in Subjects} : to_string(u) = s
    THEN Ok(CHOOSE u \in {x.id : x \in Subjects} : to_string(u) = s)
    ELSE Err("uuid::Error")

\* refresh_access_token refusing the tokens of deactivated users
refresh_access_token_active(i, refresh_token, scopes, t) ==
    LET refresh_claims == verify_refresh_token(i, refresh_token, t)
    IN IF ~refresh_claims.ok THEN refresh_claims
       ELSE LET user_id == parse_str(refresh_claims.val.sub)
            IN IF ~user_id.ok THEN Err("InvalidToken")
               ELSE IF \E k \in 1..Len(users) :
                          users[k].id = user_id.val /\ ~users[k].is_active
               THEN Err("InvalidToken")
               ELSE gen_access_token(i, user_id.val, refresh_claims.val.email,
                                     scopes, t)

\* refresh_access_token granting the least scope whatever the caller asks
refresh_access_token_least(i, refresh_token, scopes, t) ==
    LET refresh_claims == verify_refresh_token(i, refresh_token, t)
    IN IF ~refresh_claims.ok THEN refresh_claims
       ELSE LET user_id == parse_str(refresh_claims.val.sub)
            IN IF ~user_id.ok THEN Err("InvalidToken")
               ELSE gen_access_token(i, user_id.val, refresh_claims.val.email,
                                     <<"Viewer">>, t)

\* AuthService::refresh_access_token at instant t
refresh_access_token(i, refresh_token, scopes, t) ==
    LET refresh_claims == verify_refresh_token(i, refresh_token, t)
    IN IF ~refresh_claims.ok THEN refresh_claims
       ELSE LET user_id == parse_str(refresh_claims.val.sub)
            IN IF ~user_id.ok THEN Err("InvalidToken")
               ELSE gen_access_token(i, user_id.val, refresh_claims.val.email,
                                     scopes, t)

\* AuthService::verify_token at instant t
verify_token(i, token, t) ==
    LET access_claims == verify_access_token(i, token, t)
    IN IF ~access_claims.ok THEN access_claims
       ELSE Ok([sub |-> access_claims.val.sub,
                email |-> access_claims.val.email,
                exp |-> access_claims.val.exp,
                iat |-> access_claims.val.iat,
                iss |-> access_claims.val.iss,
                token_type |-> access_claims.val.token_type,
                scope |-> access_claims.val.scope])

\* Vec::contains
contains(vec, x) == \E k \in 1..Len(vec) : vec[k] = x

\* AuthService::has_admin_scope at instant t
has_admin_scope(i, token, t) ==
    LET claims == verify_token(i, token, t)
    IN IF ~claims.ok THEN claims
       ELSE Ok(contains(claims.val.scope, "Admin"))

\* has_scope reading Admin as holding every scope
has_scope_hierarchical(i, token, required_scope, t) ==
    LET claims == verify_token(i, token, t)
    IN IF ~claims.ok THEN claims
       ELSE Ok(contains(claims.val.scope, required_scope)
               \/ contains(claims.val.scope, "Admin"))

\* AuthService::has_scope at instant t
has_scope(i, token, required_scope, t) ==
    LET claims == verify_token(i, token, t)
    IN IF ~claims.ok THEN claims
       ELSE Ok(contains(claims.val.scope, required_scope))

\* generate_jwks naming the key differently from the token header
generate_jwks_rekeyed(i) ==
    LET public_key == RsaPublicKey_from_public_key_pem(svc[i].public_key)
    IN IF ~public_key.ok THEN public_key
       ELSE Ok([keys |-> <<
                   [alg |-> "RS256",
                    e |-> URL_SAFE_NO_PAD_encode(to_bytes_be(PublicExponent)),
                    kid |-> "exchange_api_key_2",
                    kty |-> "RSA",
                    n |-> URL_SAFE_NO_PAD_encode(
                              to_bytes_be(Modulus(public_key.val))),
                    use |-> "sig"]>>])

\* generate_jwks rendering the private member d as well
generate_jwks_private(i) ==
    LET public_key == RsaPublicKey_from_public_key_pem(svc[i].public_key)
    IN IF ~public_key.ok THEN public_key
       ELSE Ok([keys |-> <<
                   [alg |-> "RS256",
                    e |-> URL_SAFE_NO_PAD_encode(to_bytes_be(PublicExponent)),
                    kid |-> "exchange_api_key_1",
                    kty |-> "RSA",
                    n |-> URL_SAFE_NO_PAD_encode(
                              to_bytes_be(Modulus(public_key.val))),
                    use |-> "sig",
                    d |-> URL_SAFE_NO_PAD_encode(to_bytes_be(
                              PrivateExponent(svc[i].private_key.key)))]>>])

\* AuthService::generate_jwks
generate_jwks(i) ==
    LET public_key == RsaPublicKey_from_public_key_pem(svc[i].public_key)
    IN IF ~public_key.ok THEN public_key
       ELSE Ok([keys |-> <<
                   [alg |-> "RS256",
                    e |-> URL_SAFE_NO_PAD_encode(to_bytes_be(PublicExponent)),
                    kid |-> "exchange_api_key_1",
                    kty |-> "RSA",
                    n |-> URL_SAFE_NO_PAD_encode(
                              to_bytes_be(Modulus(public_key.val))),
                    use |-> "sig"]>>])

(***************************************************************************)
(* The users table and its handlers: users is the table, its rows in the   *)
(* order of insertion.  Timestamps and shopify_user_id are left out: no    *)
(* handler reads them.                                                     *)
(***************************************************************************)
\* Option::None of a text
Absent == ""

\* the ids the database gives to user rows
UserIds == {s.id : s \in Subjects}

Merchants == {1, 2}

\* e-mail texts of requests; the last one does not match the pattern of
\* validate_email
EmailInputs == {"a@b.com", "c@d.com", "not-an-email"}

\* password texts of requests; the last one fails validate_password
PasswordInputs == {"Passw0rd!", "Secr3t#9x", "short"}

\* format!("{:x}", Sha256::digest(password))
Sha256Hex(password) ==
    CASE password = "Passw0rd!" ->
            "e66860546f18cdbbcd86b35e18b525bffc67f772c650cedfe3ff7a0026fa1dee"
      [] password = "Secr3t#9x" ->
            "5900d168512143265582dd815543e8d8fdc0856fd54ddfa0540ebf795d246eea"
      [] password = "short" ->
            "f9b0078b5df596d2ea19010c001bbd009e651de2c57e8fb7e355f31eb9d3f739"
      [] OTHER ->
            "e3b0c44298fc1c149afbf4c8996fb92427ae41e4649b934ca495991b7852b855"

\* misc::validator::validate_email, on the e-mail texts of the model
validate_email(email) ==
    IF email \in {"a@b.com", "c@d.com"} THEN Ok(TRUE) ELSE Err("Validation")

\* misc::validator::validate_password, on the password texts of the model
validate_password(password) ==
    IF password \in {"Passw0rd!", "Secr3t#9x"}
    THEN Ok(TRUE) ELSE Err("Validation")

\* the positions of the rows of the table users, from which a WHERE clause
\* selects
Rows == 1..Len(users)

\* struct UserResponse: the columns the users handlers return
UserResponse(row) ==
    [id |-> row.id, merchant_id |-> row.merchant_id, email |-> row.email,
     display_name |-> row.display_name, role |-> row.role,
     is_active |-> row.is_active]

\* http::users::create_user; id is the id the database gives the new row.
\* The result is paired with the table the handler leaves.
create_user(req, id) ==
    LET same(row) == row.merchant_id = req.merchant_id /\ row.email = req.email
        role == "viewer"
        user == [id |-> id,
                 merchant_id |-> req.merchant_id,
                 email |-> req.email,
                 password_hash |-> IF req.password = Absent THEN Absent
                                   ELSE Sha256Hex(req.password),
                 display_name |-> req.display_name,
                 role |-> role,
                 is_active |-> IF req.is_active = {} THEN TRUE
                               ELSE CHOOSE b \in req.is_active : TRUE]
    IN IF ~validate_email(req.email).ok
       THEN [res |-> Err("Validation"), users |-> users]
       ELSE IF req.password # Absent /\ ~validate_password(req.password).ok
       THEN [res |-> Err("Validation"), users |-> users]
       ELSE IF {r \in Rows : same(users[r])} # {}
       THEN [res |-> Err("Validation"), users |-> users]
       ELSE [res |-> Ok(UserResponse(user)), users |-> Append(users, user)]

\* http::users::update_user
update_user(id, req) ==
    LET is(row) == row.id = id
        set(row) ==
            [row EXCEPT
                !.display_name = IF req.display_name = Absent THEN @
                                 ELSE req.display_name,
                !.password_hash = IF req.password = Absent THEN @
                                  ELSE Sha256Hex(req.password)]
    IN IF req.password # Absent /\ ~validate_password(req.password).ok
       THEN [res |-> Err("Validation"), users |-> users]
       ELSE IF {r \in Rows : is(users[r])} = {}
       THEN [res |-> Err("NotFound"), users |-> users]
       ELSE [res |-> Ok(UserResponse(set(users[CHOOSE k \in {r \in Rows : is(users[r])} : TRUE]))),
             users |-> [k \in 1..Len(users) |->
                          IF k \in {r \in Rows : is(users[r])} THEN set(users[k]) ELSE users[k]]]

\* http::users::delete_user
delete_user(id) ==
    LET is(row) == row.id = id
    IN IF {r \in Rows : is(users[r])} = {}
       THEN [res |-> Err("NotFound"), users |-> users]
       ELSE [res |-> Ok("NO_CONTENT"),
             users |-> [k \in 1..Len(users) |->
                          IF k \in {r \in Rows : is(users[r])}
                          THEN [users[k] EXCEPT !.is_active = FALSE]
                          ELSE users[k]]]

\* handle_login granting the Viewer scope whatever the role
handle_login_viewer(i, login_req, k, jti, t) ==
    LET user == users[k]
        provided_hash == Sha256Hex(login_req.password)
        scopes == <<"Viewer">>
        pair == gen_token_pair(i, user.id, user.email, scopes, jti, t)
    IN IF ~validate_email(login_req.email).ok THEN Err("Validation")
       ELSE IF k = 0 THEN Err("InvalidCredentials")
       ELSE IF ~user.is_active THEN Err("Unauthorized")
       ELSE IF user.password_hash = Absent THEN Err("InvalidCredentials")
       ELSE IF user.password_hash # provided_hash
       THEN Err("InvalidCredentials")
       ELSE IF ~pair.ok THEN Err("InternalServerError")
       ELSE Ok([access_token |-> pair.val[1],
                refresh_token |-> pair.val[2],
                user |-> [id |-> user.id, email |-> user.email,
                          display_name |-> user.display_name,
                          role |-> user.role]])

\* handle_login without the is_active test
handle_login_inactive(i, login_req, k, jti, t) ==
    LET user == users[k]
        provided_hash == Sha256Hex(login_req.password)
        scopes == determine_user_scopes(user.role)
        pair == gen_token_pair(i, user.id, user.email, scopes, jti, t)
    IN IF ~validate_email(login_req.email).ok THEN Err("Validation")
       ELSE IF k = 0 THEN Err("InvalidCredentials")
       ELSE IF user.password_hash = Absent THEN Err("InvalidCredentials")
       ELSE IF user.password_hash # provided_hash
       THEN Err("InvalidCredentials")
       ELSE IF ~pair.ok THEN Err("InternalServerError")
       ELSE Ok([access_token |-> pair.val[1],
                refresh_token |-> pair.val[2],
                user |-> [id |-> user.id, email |-> user.email,
                          display_name |-> user.display_name,
                          role |-> user.role]])

\* http::auth::login::handle_login at instant t on process i.  found is the
\* set of positions of the rows with the e-mail of the request and k the
\* position of the row fetch_optional returns: the query has no ORDER BY,
\* so it is any row of found.  jti is the uuid gen_refresh_token draws.
handle_login(i, login_req, k, jti, t) ==
    LET user == users[k]
        provided_hash == Sha256Hex(login_req.password)
        scopes == determine_user_scopes(user.role)
        pair == gen_token_pair(i, user.id, user.email, scopes, jti, t)
    IN IF ~validate_email(login_req.email).ok THEN Err("Validation")
       ELSE IF k = 0 THEN Err("InvalidCredentials")
       ELSE IF ~user.is_active THEN Err("Unauthorized")
       ELSE IF user.password_hash = Absent THEN Err("InvalidCredentials")
       ELSE IF user.password_hash # provided_hash
       THEN Err("InvalidCredentials")
       ELSE IF ~pair.ok THEN Err("InternalServerError")
       ELSE Ok([access_token |-> pair.val[1],
                refresh_token |-> pair.val[2],
                user |-> [id |-> user.id, email |-> user.email,
                          display_name |-> user.display_name,
                          role |-> user.role]])

(***************************************************************************)
(* Tokens a client can present: the tokens it holds, and tokens made from  *)
(* them with another header algorithm.  A holder of the signing key, such  *)
(* as a process that shares the key pair, can also sign the claims again   *)
(* under another header kid or with another subject.                       *)
(***************************************************************************)
CraftModes == {"as_issued", "alg_none", "alg_HS256", "alg_RS384"}

ResignModes == {"kid_other", "kid_absent", "sub_malformed"}

\* Header::kid when it is Option::None
NoKid == ""

Craft(token, mode) ==
    LET reheader(alg) == [alg |-> alg, kid |-> token.header.kid]
    IN CASE mode = "alg_none" ->
              [header |-> reheader("none"), payload |-> token.payload,
               sig |-> Sign("none", "", <<>>)]
         [] mode = "alg_HS256" ->
              \* HMAC keyed with the published public key
              [header |-> reheader("HS256"), payload |-> token.payload,
               sig |-> Sign("HS256", "hmac-secret-is-the-public-pem",
                            <<reheader("HS256"), token.payload>>)]
         [] mode = "alg_RS384" ->
              \* an RS384 signature by the key that signed the token
              [header |-> reheader("RS384"), payload |-> token.payload,
               sig |-> Sign("RS384", token.sig.key,
                            <<reheader("RS384"), token.payload>>)]
         [] mode = "kid_other" ->
              \* an RS256 signature by the key that signed the token, over a
              \* header that names another key
              [header |-> [alg |-> "RS256", kid |-> "exchange_api_key_2"],
               payload |-> token.payload,
               sig |-> Sign("RS256", token.sig.key,
                            <<[alg |-> "RS256", kid |-> "exchange_api_key_2"],
                              token.payload>>)]
         [] mode = "kid_absent" ->
              \* the same, over a header without kid
              [header |-> [alg |-> "RS256", kid |-> NoKid],
               payload |-> token.payload,
               sig |-> Sign("RS256", token.sig.key,
                            <<[alg |-> "RS256", kid |-> NoKid],
                              token.payload>>)]
         [] mode = "sub_malformed" ->
              \* an RS256 signature by the key that signed the token, over
              \* claims whose sub is not the text of a UUID
              [header |-> token.header,
               payload |-> [token.payload EXCEPT !.sub = "not-a-uuid"],
               sig |-> Sign("RS256", token.sig.key,
                            <<token.header,
                              [token.payload EXCEPT !.sub = "not-a-uuid"]>>)]
         [] OTHER -> token

Presentable == {Craft(e.token, m) : e \in held, m \in CraftModes}

Resigned == {Craft(e.token, m) : e \in held, m \in ResignModes}

(***************************************************************************)
(* The state machine                                                       *)
(***************************************************************************)
\* instants at which something happens: the start, and the instants around
\* the expiry of a token issued at the start
Clock == {StartTime + d : d \in {0, AccessLifetime + 1, AccessLifetime + 61,
                                 RefreshLifetime + 1, RefreshLifetime + 61}}

NoCall == [op |-> "none", by |-> 0, at |-> 0, arg |-> <<>>, res |-> Ok(<<>>)]

Call(op, i, arg, res) == [op |-> op, by |-> i, at |-> now, arg |-> arg, res |-> res]

\* what is known of an issued token: who issued it, when, from what inputs
Issued(op, i, t, user_id, email, scopes, token) ==
    [by |-> i, op |-> op, at |-> t, user_id |-> user_id, email |-> email,
     scopes |-> scopes, token |-> token]

\* the request tasks the runtime runs at the same time on one process
Tasks == {1, 2}

\* a task that handles no request
Idle == [status |-> "idle", op |-> "none", by |-> 0, at |-> 0, arg |-> <<>>,
         alone |-> Ok(<<>>), res |-> Ok(<<>>)]

\* struct Args: the settings AuthService::from_config reads
Args(private_key, public_key, jwt_expiration_hours) ==
    [private_key |-> private_key, public_key |-> public_key,
     jwt_expiration_hours |-> jwt_expiration_hours]

\* serve, for processes configured with a well-formed private key and the
\* public key that corresponds to it: the state after from_config; two
\* processes may share a key pair.
Init ==
    /\ \E k \in KeyIds, h \in ExpirationHours :
           config = [i \in Instances |->
                       IF i = 1
                       THEN Args(PrivatePem("k1"), PublicPem("k1"), 24)
                       ELSE Args(PrivatePem(k), PublicPem(k), h)]
    /\ svc = [i \in Instances |->
                from_config(config[i], "k1", StartTime).res.val]
    /\ fs = [i \in Instances |-> from_config(config[i], "k1", StartTime).writes]
    /\ keygen = [i \in Instances |-> 0]
    /\ tasks = [k \in Tasks |-> Idle]
    /\ users = <<>>
    /\ pc = [i \in Instances |-> "serving"]
    /\ now = StartTime
    /\ held = {}
    /\ last = NoCall

\* time passes
Tick ==
    /\ last.op = "none"
    /\ \A i \in Instances : pc[i] # "boot"
    /\ \E t \in Clock : t > now /\ now' = t
    /\ UNCHANGED <<config, svc, held, last, pc, fs, keygen, tasks, users>>

\* the result of a call has been delivered to its caller
Respond ==
    /\ last.op # "none"
    /\ last' = NoCall
    /\ UNCHANGED <<config, svc, now, held, pc, fs, keygen, tasks, users>>

\* the caller of a gen_* operation keeps the token while it has room
Keep(entry) == IF Cardinality(held) < MaxHeld THEN held \cup {entry} ELSE held

\* a caller obtains an access token
GenAccessToken ==
    \E i \in Instances, s \in Subjects, scopes \in ScopeLists :
        LET res == gen_access_token(i, s.id, s.email, scopes, now)
        IN /\ last.op = "none"
           /\ pc[i] = "serving"
           /\ last' = Call("gen_access_token", i,
                           [user_id |-> s.id, email |-> s.email,
                            scopes |-> scopes], res)
           /\ held' = IF res.ok
                      THEN Keep(Issued("gen_access_token", i, now, s.id,
                                       s.email, scopes, res.val))
                      ELSE held
           /\ UNCHANGED <<config, svc, now, pc, fs, keygen, tasks, users>>

\* a caller obtains a refresh token
GenRefreshToken ==
    \E i \in Instances, s \in Subjects, jti \in JtiSpace :
        LET res == gen_refresh_token(i, s.id, s.email, jti, now)
        IN /\ last.op = "none"
           /\ pc[i] = "serving"
           /\ last' = Call("gen_refresh_token", i,
                           [user_id |-> s.id, email |-> s.email,
                            scopes |-> <<>>], res)
           /\ held' = IF res.ok
                      THEN Keep(Issued("gen_refresh_token", i, now, s.id,
                                       s.email, <<>>, res.val))
                      ELSE held
           /\ UNCHANGED <<config, svc, now, pc, fs, keygen, tasks, users>>

\* a client presents a token to verify_access_token
VerifyAccessToken ==
    \E i \in Instances, token \in Presentable :
        /\ last.op = "none"
        /\ pc[i] = "serving"
        /\ last' = Call("verify_access_token", i, token,
                        verify_access_token(i, token, now))
        /\ UNCHANGED <<config, svc, now, held, pc, fs, keygen, tasks, users>>

\* a client presents a token to verify_refresh_token
VerifyRefreshToken ==
    \E i \in Instances, token \in Presentable :
        /\ last.op = "none"
        /\ pc[i] = "serving"
        /\ last' = Call("verify_refresh_token", i, token,
                        verify_refresh_token(i, token, now))
        /\ UNCHANGED <<config, svc, now, held, pc, fs, keygen, tasks, users>>

\* a token signed again by a holder of the key is presented to
\* verify_access_token
VerifyAccessResigned ==
    \E i \in Instances, token \in Resigned :
        /\ last.op = "none"
        /\ pc[i] = "serving"
        /\ last' = Call("verify_access_token", i, token,
                        verify_access_token(i, token, now))
        /\ UNCHANGED <<config, svc, now, held, pc, fs, keygen, tasks, users>>

\* a token signed again by a holder of the key is presented to
\* verify_refresh_token
VerifyRefreshResigned ==
    \E i \in Instances, token \in Resigned :
        /\ last.op = "none"
        /\ pc[i] = "serving"
        /\ last' = Call("verify_refresh_token", i, token,
                        verify_refresh_token(i, token, now))
        /\ UNCHANGED <<config, svc, now, held, pc, fs, keygen, tasks, users>>

\* gen_token_pair leaving a record of the pair on disk
GenTokenPairRecording ==
    \E i \in Instances, s \in Subjects, scopes \in ScopeLists,
       jti \in JtiSpace :
        LET res == gen_token_pair(i, s.id, s.email, scopes, jti, now)
        IN /\ last.op = "none"
           /\ pc[i] = "serving"
           /\ Len(fs[i]) < 2
           /\ last' = Call("gen_token_pair", i,
                           [user_id |-> s.id, email |-> s.email,
                            scopes |-> scopes], res)
           /\ fs' = [fs EXCEPT ![i] =
                        Append(fs[i], [path |-> "tokens.json", data |-> res])]
           /\ UNCHANGED <<config, svc, now, held, pc, keygen, tasks, users>>

\* a caller obtains an access token and a refresh token together, and
\* keeps what it has room for
GenTokenPair ==
    \E i \in Instances, s \in Subjects, scopes \in ScopeLists,
       jti \in JtiSpace :
        LET res == gen_token_pair(i, s.id, s.email, scopes, jti, now)
            kept == Keep(Issued("gen_access_token", i, now, s.id, s.email,
                                scopes, res.val[1]))
        IN /\ last.op = "none"
           /\ pc[i] = "serving"
           /\ last' = Call("gen_token_pair", i,
                           [user_id |-> s.id, email |-> s.email,
                            scopes |-> scopes], res)
           /\ held' = IF ~res.ok THEN held
                      ELSE IF Cardinality(kept) < MaxHeld
                      THEN kept \cup {Issued("gen_refresh_token", i, now,
                                             s.id, s.email, <<>>, res.val[2])}
                      ELSE kept
           /\ UNCHANGED <<config, svc, now, pc, fs, keygen, tasks, users>>

\* a client exchanges a refresh token for an access token with the scopes the
\* caller supplies
RefreshAccessToken ==
    \E i \in Instances, token \in Presentable \cup Resigned,
       scopes \in ScopeLists :
        /\ last.op = "none"
        /\ pc[i] = "serving"
        /\ last' = Call("refresh_access_token", i,
                        [token |-> token, scopes |-> scopes],
                        refresh_access_token(i, token, scopes, now))
        /\ UNCHANGED <<config, svc, now, held, pc, fs, keygen, tasks, users>>

\* a caller asks whether a token carries a scope
HasScope ==
    \E i \in Instances, token \in Presentable, required_scope \in Scope :
        /\ last.op = "none"
        /\ pc[i] = "serving"
        /\ last' = Call("has_scope", i,
                        [token |-> token, required_scope |-> required_scope],
                        has_scope(i, token, required_scope, now))
        /\ UNCHANGED <<config, svc, now, held, pc, fs, keygen, tasks, users>>

\* a caller asks whether a token carries the Admin scope
HasAdminScope ==
    \E i \in Instances, token \in Presentable :
        /\ last.op = "none"
        /\ pc[i] = "serving"
        /\ last' = Call("has_admin_scope", i, [token |-> token],
                        has_admin_scope(i, token, now))
        /\ UNCHANGED <<config, svc, now, held, pc, fs, keygen, tasks, users>>

\* POST /users
CreateUser ==
    \E merchant_id \in Merchants, email \in EmailInputs,
       password \in {Absent, "Passw0rd!", "short"},
       is_active \in {{}, {FALSE}},
       id \in UserIds \ {users[k].id : k \in 1..Len(users)} :
        LET req == [merchant_id |-> merchant_id, email |-> email,
                    password |-> password, display_name |-> Absent,
                    is_active |-> is_active]
            done == create_user(req, id)
        IN /\ last.op = "none"
           /\ pc[1] = "serving"
           /\ last' = Call("create_user", 1, req, done.res)
           /\ users' = done.users
           /\ UNCHANGED <<config, svc, now, held, pc, fs, keygen, tasks>>

\* PUT /users/:id
UpdateUser ==
    \E id \in UserIds, password \in PasswordInputs \cup {Absent} :
        LET req == [display_name |-> Absent, password |-> password]
            done == update_user(id, req)
        IN /\ last.op = "none"
           /\ pc[1] = "serving"
           /\ last' = Call("update_user", 1, [id |-> id, req |-> req],
                           done.res)
           /\ users' = done.users
           /\ UNCHANGED <<config, svc, now, held, pc, fs, keygen, tasks>>

\* DELETE /users/:id
DeleteUser ==
    \E id \in UserIds :
        LET done == delete_user(id)
        IN /\ last.op = "none"
           /\ pc[1] = "serving"
           /\ last' = Call("delete_user", 1, [id |-> id], done.res)
           /\ users' = done.users
           /\ UNCHANGED <<config, svc, now, held, pc, fs, keygen, tasks>>

\* POST /login
HandleLogin ==
    \E email \in EmailInputs, password \in PasswordInputs \ {"short"},
       jti \in JtiSpace :
        LET login_req == [email |-> email, password |-> password]
            is(row) == row.email = email
            found == {r \in Rows : is(users[r])}
        IN \E k \in (IF found = {} THEN {0} ELSE found) :
            /\ last.op = "none"
            /\ pc[1] = "serving"
            /\ last' = Call("handle_login", 1,
                            [login_req |-> login_req, found |-> found,
                             row |-> k],
                            handle_login(1, login_req, k, jti, now))
            /\ UNCHANGED <<config, svc, now, held, pc, fs, keygen, tasks,
                           users>>

\* the client keeps the refresh token of the login response while it has room
KeepRefreshToken ==
    /\ last.op = "handle_login"
    /\ last.res.ok
    /\ Cardinality(held) < MaxHeld
    /\ held' = held \cup
                 {Issued("gen_refresh_token", last.by, last.at,
                         last.res.val.user.id, last.res.val.user.email, <<>>,
                         last.res.val.refresh_token)}
    /\ last' = NoCall
    /\ UNCHANGED <<config, svc, now, pc, fs, keygen, tasks, users>>

\* the login handler maps a stored role to scopes
DetermineUserScopes ==
    \E role \in Roles :
        /\ last.op = "none"
        /\ last' = Call("determine_user_scopes", 0, role,
                        Ok(determine_user_scopes(role)))
        /\ UNCHANGED <<config, svc, now, held, pc, fs, keygen, tasks, users>>

\* a handler that builds the AuthService anew on each request
GenerateJwksReloading ==
    \E i \in Instances, k \in KeyIds :
        LET built == from_config(config[i], k, now)
        IN /\ last.op = "none"
           /\ pc[i] = "serving"
           /\ keygen[i] < 2
           /\ built.res.ok
           /\ svc' = [svc EXCEPT ![i] = built.res.val]
           /\ fs' = [fs EXCEPT ![i] = fs[i] \o built.writes]
           /\ keygen' = [keygen EXCEPT ![i] = keygen[i] + built.keygen]
           /\ last' = Call("generate_jwks", i, "", generate_jwks(i))
           /\ UNCHANGED <<config, now, held, pc, tasks, users>>

\* GET /.well-known/jwks.json: get_jwks renders the key set
GenerateJwks ==
    \E i \in Instances :
        /\ last.op = "none"
        /\ pc[i] = "serving"
        /\ last' = Call("generate_jwks", i, "", generate_jwks(i))
        /\ UNCHANGED <<config, svc, now, held, pc, fs, keygen, tasks, users>>

\* serve: the process builds its AuthService before it binds its listener;
\* when that fails the process ends.  k is the key pair the generator draws.
FromConfig ==
    \E i \in Instances, k \in KeyIds :
        LET built == from_config(config[i], k, now)
        IN /\ pc[i] = "boot"
           /\ pc' = [pc EXCEPT ![i] = IF built.res.ok THEN "serving"
                                      ELSE "failed"]
           /\ svc' = IF built.res.ok THEN [svc EXCEPT ![i] = built.res.val]
                     ELSE svc
           /\ fs' = [fs EXCEPT ![i] = fs[i] \o built.writes]
           /\ keygen' = [keygen EXCEPT ![i] = keygen[i] + built.keygen]
           /\ UNCHANGED <<config, now, held, last, tasks, users>>

Next ==
    \/ Tick
    \/ Respond
    \/ GenAccessToken
    \/ GenRefreshToken
    \/ VerifyAccessToken
    \/ VerifyRefreshToken
    \/ DetermineUserScopes

Spec == Init /\ [][Next]_vars

\* the private key settings a deployment can carry
PrivateKeySettings == {NoPem, PrivatePem("k1"), MalformedPem}

\* the public key settings a deployment can carry
PublicKeySettings == {NoPem, PublicPem("k1"), PublicPem("k2"), MalformedPem}

\* main: process 1 is about to call serve with any key settings; process 2
\* is not started
InitConfig ==
    /\ \E sk \in PrivateKeySettings, pk \in PublicKeySettings :
           config = [i \in Instances |->
                       IF i = 1 THEN Args(sk, pk, 24) ELSE Args(NoPem, NoPem, 24)]
    /\ svc = [i \in Instances |-> new(NoPem, 24, NoPem)]
    /\ fs = [i \in Instances |-> <<>>]
    /\ keygen = [i \in Instances |-> 0]
    /\ tasks = [k \in Tasks |-> Idle]
    /\ users = <<>>
    /\ pc = [i \in Instances |-> IF i = 1 THEN "boot" ELSE "off"]
    /\ now = StartTime
    /\ held = {}
    /\ last = NoCall

NextConfig ==
    \/ FromConfig
    \/ Tick
    \/ Respond
    \/ GenAccessToken
    \/ GenRefreshToken
    \/ VerifyAccessToken
    \/ VerifyRefreshToken
    \/ GenerateJwks

SpecConfig == InitConfig /\ [][NextConfig]_vars

\* serve has built the AuthService of process 1 from a well-formed private
\* key and the corresponding public key; process 2 is not started
InitServing ==
    /\ config = [i \in Instances |->
                   IF i = 1 THEN Args(PrivatePem("k1"), PublicPem("k1"), 24)
                   ELSE Args(NoPem, NoPem, 24)]
    /\ svc = [i \in Instances |->
                IF i = 1 THEN from_config(config[i], "k1", StartTime).res.val
                ELSE new(NoPem, 24, NoPem)]
    /\ fs = [i \in Instances |->
               IF i = 1 THEN from_config(config[i], "k1", StartTime).writes
               ELSE <<>>]
    /\ keygen = [i \in Instances |-> 0]
    /\ tasks = [k \in Tasks |-> Idle]
    /\ users = <<>>
    /\ pc = [i \in Instances |-> IF i = 1 THEN "serving" ELSE "off"]
    /\ now = StartTime
    /\ held = {}
    /\ last = NoCall

\* the request-time operations of the serving process
NextRequests ==
    \/ Tick
    \/ Respond
    \/ GenAccessToken
    \/ GenRefreshToken
    \/ VerifyAccessResigned
    \/ VerifyRefreshResigned
    \/ RefreshAccessToken
    \/ HasScope
    \/ HasAdminScope
    \/ GenTokenPair
    \/ GenerateJwks

SpecRequests == InitServing /\ [][NextRequests]_vars

\* a row that a SQL script has put in the table, with a role the API does
\* not give
Seeded(role) ==
    [id |-> 1, merchant_id |-> 1, email |-> "a@b.com",
     password_hash |-> Sha256Hex("Passw0rd!"), display_name |-> Absent,
     role |-> role, is_active |-> TRUE]

\* the process serves with a well-formed key pair; the users table is empty
\* or holds one row made by a SQL script
InitUsers ==
    /\ config = [i \in Instances |->
                   IF i = 1 THEN Args(PrivatePem("k1"), PublicPem("k1"), 24)
                   ELSE Args(NoPem, NoPem, 24)]
    /\ svc = [i \in Instances |->
                IF i = 1 THEN from_config(config[i], "k1", StartTime).res.val
                ELSE new(NoPem, 24, NoPem)]
    /\ fs = [i \in Instances |->
               IF i = 1 THEN from_config(config[i], "k1", StartTime).writes
               ELSE <<>>]
    /\ keygen = [i \in Instances |-> 0]
    /\ tasks = [k \in Tasks |-> Idle]
    /\ users \in {<<>>} \cup {<<Seeded(role)>> : role \in {"admin", "manager"}}
    /\ pc = [i \in Instances |-> IF i = 1 THEN "serving" ELSE "off"]
    /\ now = StartTime
    /\ held = {}
    /\ last = NoCall

\* the users API and login
NextUsers ==
    \/ Respond
    \/ CreateUser
    \/ UpdateUser
    \/ DeleteUser
    \/ HandleLogin

SpecUsers == InitUsers /\ [][NextUsers]_vars

\* logins, deactivation of users, further issuance, and the use of the
\* refresh tokens the clients keep, as time passes
NextRevocation ==
    \/ Tick
    \/ Respond
    \/ HandleLogin
    \/ KeepRefreshToken
    \/ DeleteUser
    \/ GenRefreshToken
    \/ VerifyRefreshToken
    \/ RefreshAccessToken

SpecRevocation == InitUsers /\ [][NextRevocation]_vars

(***************************************************************************)
(* Concurrent calls on the shared AuthService: a call begun by one task    *)
(* ends after steps of the other task.                                      *)
(***************************************************************************)
\* the operation a task calls on the AuthService of process i, reading the
\* service as it is in the state of evaluation
Run(op, i, arg, t) ==
    CASE op = "gen_access_token" ->
            gen_access_token(i, arg.user_id, arg.email, arg.scopes, t)
      [] op = "gen_refresh_token" ->
            gen_refresh_token(i, arg.user_id, arg.email, arg.jti, t)
      [] op = "verify_access_token" -> verify_access_token(i, arg.token, t)
      [] op = "verify_refresh_token" -> verify_refresh_token(i, arg.token, t)
      [] op = "refresh_access_token" ->
            refresh_access_token(i, arg.token, arg.scopes, t)
      [] OTHER -> generate_jwks(i)

\* the tokens that calls of the tasks have returned
TaskTokens ==
    {tasks[k].res.val : k \in {j \in Tasks :
        /\ tasks[j].status = "done"
        /\ tasks[j].op \in {"gen_access_token", "gen_refresh_token",
                            "refresh_access_token"}
        /\ tasks[j].res.ok}}

\* task k enters an operation of process i at the present instant; alone is
\* what the operation returns when nothing else runs
Begin(k, i, op, arg) ==
    /\ tasks[k].status # "running"
    /\ pc[i] = "serving"
    /\ tasks' = [tasks EXCEPT ![k] =
                    [status |-> "running", op |-> op, by |-> i, at |-> now,
                     arg |-> arg, alone |-> Run(op, i, arg, now),
                     res |-> Ok(<<>>)]]
    /\ UNCHANGED <<config, svc, now, held, last, pc, fs, keygen, users>>

\* each task serves one subject
BeginIssue ==
    \E k \in Tasks, i \in Instances :
      \E s \in {x \in Subjects : x.id = k} :
        \/ Begin(k, i, "gen_access_token",
                 [user_id |-> s.id, email |-> s.email,
                  scopes |-> determine_user_scopes("manager")])
        \/ \E jti \in JtiSpace :
               Begin(k, i, "gen_refresh_token",
                     [user_id |-> s.id, email |-> s.email, jti |-> jti])

BeginVerify ==
    \E k \in Tasks, i \in Instances, token \in TaskTokens :
        \/ Begin(k, i, "verify_access_token", [token |-> token])
        \/ Begin(k, i, "verify_refresh_token", [token |-> token])

BeginRefresh ==
    \E k \in Tasks, i \in Instances, token \in TaskTokens,
       scopes \in ScopeLists :
        Begin(k, i, "refresh_access_token",
              [token |-> token, scopes |-> scopes])

BeginJwks ==
    \E k \in Tasks, i \in Instances :
        Begin(k, i, "generate_jwks", [token |-> NoKid])

\* an operation that installs another key pair as it returns
FinishRotating ==
    \E k \in Tasks :
        /\ tasks[k].status = "running"
        /\ tasks' = [tasks EXCEPT ![k] =
                        [tasks[k] EXCEPT
                            !.status = "done",
                            !.res = Run(tasks[k].op, tasks[k].by,
                                        tasks[k].arg, tasks[k].at)]]
        /\ svc' = [svc EXCEPT ![tasks[k].by] =
                      new(PrivatePem("k2"), 24, PublicPem("k2"))]
        /\ UNCHANGED <<config, now, held, last, pc, fs, keygen, users>>

\* the operation of task k returns: it has read the service in this state
Finish ==
    \E k \in Tasks :
        /\ tasks[k].status = "running"
        /\ tasks' = [tasks EXCEPT ![k] =
                        [tasks[k] EXCEPT
                            !.status = "done",
                            !.res = Run(tasks[k].op, tasks[k].by,
                                        tasks[k].arg, tasks[k].at)]]
        /\ UNCHANGED <<config, svc, now, held, last, pc, fs, keygen, users>>

\* while calls run, time passes from the start to beyond the expiry and the
\* leeway of the access tokens issued at the start
TickPastAccess ==
    /\ now = StartTime
    /\ now' = StartTime + AccessLifetime + 61
    /\ UNCHANGED <<config, svc, held, last, pc, fs, keygen, tasks, users>>

NextConcurrent ==
    \/ TickPastAccess
    \/ BeginIssue
    \/ BeginVerify
    \/ BeginRefresh
    \/ BeginJwks
    \/ Finish

SpecConcurrent == InitServing /\ [][NextConcurrent]_vars

\* every token whose issuance is in the state: those held, and the one the
\* last call returned
Tokens ==
    held \cup
    (IF last.op \in {"gen_access_token", "gen_refresh_token"} /\ last.res.ok
     THEN {Issued(last.op, last.by, last.at, last.arg.user_id, last.arg.email,
                  last.arg.scopes, last.res.val)}
     ELSE {})

(***************************************************************************)
(* Properties                                                              *)
(***************************************************************************)
VerifyOps == {"verify_access_token", "verify_refresh_token"}

\* the instance's verification key is the public half of the key that
\* signed the issued token e
SameKey(i, e) == svc[i].public_key.key = svc[e.by].private_key.key

\* the last call presented, unchanged, the token of issuance e
Presented(e) == last.op \in VerifyOps /\ last.arg = e.token

\* C1: an access token returned by gen_access_token(U, email, S) is
\* accepted by verify_access_token of the issuing service while unexpired,
\* and the claims returned have sub = U as a string, the same email,
\* token_type Access and scope S in the same order.
C1_RoundTrip ==
    \A e \in Tokens :
        (e.op = "gen_access_token" /\ now <= e.token.payload.exp) =>
            LET r == verify_access_token(e.by, e.token, now)
            IN /\ r.ok
               /\ r.val.sub = to_string(e.user_id)
               /\ r.val.email = e.email
               /\ r.val.token_type = "Access"
               /\ r.val.scope = e.scopes

\* an access token with two scopes, verified by its issuer after time passed
C1_Witness ==
    \E e \in held :
        /\ e.op = "gen_access_token"
        /\ Len(e.scopes) = 2
        /\ now > e.at
        /\ last.op = "verify_access_token"
        /\ last.by = e.by
        /\ last.arg = e.token
        /\ last.res.ok
        /\ last.res.val.scope = e.scopes

\* C2: verify_access_token never returns Ok for a token produced by
\* gen_refresh_token, and verify_refresh_token never returns Ok for a token
\* produced by gen_access_token.
C2_KindBoundary ==
    \A e \in Tokens, i \in Instances :
        /\ e.op = "gen_refresh_token" => ~verify_access_token(i, e.token, now).ok
        /\ e.op = "gen_access_token" => ~verify_refresh_token(i, e.token, now).ok

\* a correctly signed, unexpired refresh token was refused by
\* verify_access_token of the service that issued it
C2_Witness ==
    \E e \in held :
        /\ e.op = "gen_refresh_token"
        /\ now <= e.token.payload.exp
        /\ last.op = "verify_access_token"
        /\ last.by = e.by
        /\ last.arg = e.token
        /\ ~last.res.ok

\* C3: a token whose exp is strictly earlier than the current time is
\* rejected by verify_access_token and by verify_refresh_token, however
\* little time has passed since exp.
C3_ExpiredRejected ==
    (last.op \in VerifyOps /\ last.arg.payload.exp < last.at) => ~last.res.ok

\* C4: verify_access_token and verify_refresh_token reject every token
\* whose header declares an algorithm other than RS256, whatever its
\* payload and signature are.
C4_AlgorithmRestricted ==
    \A e \in Tokens, m \in CraftModes, i \in Instances :
        LET token == Craft(e.token, m)
        IN token.header.alg # "RS256" =>
               /\ ~verify_access_token(i, token, now).ok
               /\ ~verify_refresh_token(i, token, now).ok

\* a token with header algorithm RS384 and a valid RS384 signature by the
\* service's own key was refused
C4_Witness ==
    /\ last.op \in VerifyOps
    /\ last.arg.header.alg = "RS384"
    /\ verify(last.arg.sig, <<last.arg.header, last.arg.payload>>,
              svc[last.by].public_key.key, "RS384")
    /\ last.arg.payload.exp >= now
    /\ ~last.res.ok

C6_KindErrorIsInvalidToken ==
    \A e \in Tokens :
        ( /\ Presented(e)
          /\ SameKey(last.by, e)
          /\ now <= e.token.payload.exp
          /\ \/ e.op = "gen_refresh_token" /\ last.op = "verify_access_token"
             \/ e.op = "gen_access_token" /\ last.op = "verify_refresh_token" )
        => last.res = Err("InvalidToken")

\* C7: determine_user_scopes maps "admin" to [Viewer, Manager, Admin],
\* "manager" to [Viewer, Manager], "viewer" to [Viewer], and every other
\* role string, the empty string and case variants included, to [Viewer].
C7_ScopeTable ==
    last.op = "determine_user_scopes" =>
        last.res.val =
            IF last.arg = "admin" THEN <<"Viewer", "Manager", "Admin">>
            ELSE IF last.arg = "manager" THEN <<"Viewer", "Manager">>
            ELSE <<"Viewer">>

\* the case variant "Admin" was mapped to [Viewer]
C7_Witness ==
    /\ last.op = "determine_user_scopes"
    /\ last.arg = "Admin"
    /\ last.res.val = <<"Viewer">>

\* C8: every token of gen_access_token has exp - iat = 900 and every token
\* of gen_refresh_token has exp - iat = 2592000, with iat the issuance time.
C8_FixedLifetimes ==
    \A e \in Tokens :
        /\ e.token.payload.iat = e.at
        /\ e.op = "gen_access_token" =>
               e.token.payload.exp - e.token.payload.iat = 900
        /\ e.op = "gen_refresh_token" =>
               e.token.payload.exp - e.token.payload.iat = 2592000

\* an access token and a refresh token have been issued, not at the start
C8_Witness ==
    /\ \E e \in Tokens : e.op = "gen_access_token" /\ e.at > StartTime
    /\ \E e \in Tokens : e.op = "gen_refresh_token"

\* C9: two services built with the same keys and any two values of
\* jwt_expiration_hours issue, at the same instant and for the same inputs,
\* access tokens with the same iat and exp, and refresh tokens with the
\* same iat and exp.
C9_LifetimeIgnoresConfig ==
    \A e1 \in Tokens, e2 \in Tokens :
        ( /\ e1.by # e2.by
          /\ svc[e1.by] = svc[e2.by]
          /\ e1.op = e2.op
          /\ e1.at = e2.at
          /\ e1.user_id = e2.user_id
          /\ e1.email = e2.email
          /\ e1.scopes = e2.scopes )
        => /\ e1.token.payload.iat = e2.token.payload.iat
           /\ e1.token.payload.exp = e2.token.payload.exp

\* two services with the same keys and different expiration settings have
\* issued access tokens for the same inputs at the same instant
C9_Witness ==
    \E e1 \in Tokens, e2 \in Tokens :
        /\ e1.by # e2.by
        /\ svc[e1.by] = svc[e2.by]
        /\ config[e1.by].jwt_expiration_hours # config[e2.by].jwt_expiration_hours
        /\ e1.op = "gen_access_token"
        /\ e2.op = "gen_access_token"
        /\ e1.at = e2.at
        /\ e1.user_id = e2.user_id
        /\ e1.scopes = e2.scopes

(***************************************************************************)
(* Key identifiers, key provisioning and the published key set: under      *)
(* SpecConfig unless said otherwise.                                       *)
(***************************************************************************)
\* the files written so far, by any process
Written == UNION {{fs[i][w] : w \in 1..Len(fs[i])} : i \in Instances}

\* the files of one name written so far
WrittenTo(path) == {f \in Written : f.path = path}

\* the entries of every JWKS document in the state: the one generate_jwks
\* just returned, and those written to public_keys.json
JwksEntries ==
    (IF last.op = "generate_jwks" /\ last.res.ok
     THEN {last.res.val.keys[j] : j \in 1..Len(last.res.val.keys)}
     ELSE {})
    \cup UNION {{f.data.keys[j] : j \in 1..Len(f.data.keys)} :
                   f \in WrittenTo("public_keys.json")}

\* every key identifier in the state: in token headers, in JWKS entries and
\* in the key record keys.json
KidsInUse ==
    {e.token.header.kid : e \in Tokens}
    \cup {j.kid : j \in JwksEntries}
    \cup {f.data.key_id : f \in WrittenTo("keys.json")}

\* C11: in every reachable state the kid in the header of every issued
\* token, the kid of every entry generate_jwks returns and the kid written to
\* public_keys.json and keys.json are one and the same value, the same in
\* every state.
C11_ConstantKid == KidsInUse \subseteq {"exchange_api_key_1"}

\* a process that generated its keys has written both files, holds an issued
\* token and has just rendered its key set
C11_Witness ==
    /\ last.op = "generate_jwks" /\ last.res.ok
    /\ held # {}
    /\ WrittenTo("keys.json") # {}
    /\ WrittenTo("public_keys.json") # {}

\* C12 (under SpecRequests): verify_access_token and verify_refresh_token
\* accept a token only if the kid of its header is the fixed kid of the
\* active key; a token signed by the active private key with another kid, or
\* with none, is not accepted.
C12_KidMatched ==
    (last.op \in VerifyOps /\ last.res.ok)
        => last.arg.header.kid = "exchange_api_key_1"

C14_ScopeTest ==
    /\ last.op = "has_scope" =>
           LET v == verify_access_token(last.by, last.arg.token, last.at)
           IN IF v.ok
              THEN /\ last.res.ok
                   /\ last.res.val =
                          (last.arg.required_scope
                             \in {v.val.scope[k] : k \in 1..Len(v.val.scope)})
              ELSE last.res = v
    /\ last.op = "has_admin_scope" =>
           last.res = has_scope(last.by, last.arg.token, "Admin", last.at)

\* a token whose scope list is [Admin] has been tested for Viewer, and the
\* answer is false
C14_Witness ==
    /\ last.op = "has_scope"
    /\ last.res.ok
    /\ last.arg.token.payload.scope = <<"Admin">>
    /\ last.arg.required_scope = "Viewer"
    /\ last.res.val = FALSE

\* how many times process i has written the file of a name
WriteCount(i, path) ==
    Cardinality({w \in 1..Len(fs[i]) : fs[i][w].path = path})

\* from_config has returned in process i
Started(i) == pc[i] \in {"serving", "failed"}

\* C15 as stated: given a private key from outside, with or without a public
\* key, from_config writes no file; given none, it writes keys.json and
\* public_keys.json exactly once each.
C15_ArtifactsOnGenerationOnly ==
    \A i \in Instances :
        Started(i) =>
            IF config[i].private_key # NoPem
            THEN fs[i] = <<>>
            ELSE /\ WriteCount(i, "keys.json") = 1
                 /\ WriteCount(i, "public_keys.json") = 1
                 /\ Len(fs[i]) = 2

\* C15, amended: given a private key from outside, from_config writes
\* public_keys.json exactly once and nothing else when it succeeds, and no
\* file when it fails; given none, it writes keys.json and public_keys.json
\* exactly once each; no file is written before or after from_config.
C15_KeyRecordOnGenerationOnly ==
    \A i \in Instances :
        /\ ~Started(i) => fs[i] = <<>>
        /\ Started(i) =>
               IF config[i].private_key # NoPem
               THEN /\ WriteCount(i, "keys.json") = 0
                    /\ WriteCount(i, "public_keys.json") =
                           (IF pc[i] = "serving" THEN 1 ELSE 0)
                    /\ Len(fs[i]) = WriteCount(i, "public_keys.json")
               ELSE /\ WriteCount(i, "keys.json") = 1
                    /\ WriteCount(i, "public_keys.json") = 1
                    /\ Len(fs[i]) = 2

\* a process given its private key from outside is serving, requests have
\* been handled, and it has written public_keys.json
C15_Witness ==
    /\ pc[1] = "serving"
    /\ config[1].private_key # NoPem
    /\ WriteCount(1, "public_keys.json") = 1
    /\ held # {}

\* C16: whenever the private key PEM supplied from outside is malformed,
\* from_config fails, with or without a public key supplied; no AuthService
\* holding an unparsable private key is built from configuration.
C16_MalformedPrivateKeyRejected ==
    \A i \in Instances :
        /\ (Started(i) /\ config[i].private_key = MalformedPem)
               => pc[i] = "failed"
        /\ pc[i] = "serving"
               => EncodingKey_from_rsa_pem(svc[i].private_key).ok

\* the verify operation that matches the kind of an issued token, at instant t
MatchingVerify(i, e, t) ==
    IF e.op = "gen_access_token"
    THEN verify_access_token(i, e.token, t)
    ELSE verify_refresh_token(i, e.token, t)

\* process i was given a well-formed private key and no public key
DerivesPublicKey(i) ==
    /\ pc[i] = "serving"
    /\ RsaPrivateKey_from_pkcs8_pem(config[i].private_key).ok
    /\ config[i].public_key = NoPem

\* C17: when from_config is given a valid private key and no public key, the
\* public key of the service is the one derived from that private key, and
\* every access and refresh token the service issues is accepted by the
\* matching verify operation of the same service at every instant up to exp.
C17_DerivedKeyVerifies ==
    \A i \in Instances :
        DerivesPublicKey(i) =>
            /\ svc[i].private_key = config[i].private_key
            /\ RsaPublicKey_from_public_key_pem(svc[i].public_key)
                   = RsaPrivateKey_from_pkcs8_pem(config[i].private_key)
            /\ \A e \in Tokens :
                   e.by = i =>
                       \A t \in Clock :
                           (e.at <= t /\ t <= e.token.payload.exp)
                               => MatchingVerify(i, e, t).ok
            /\ (/\ last.op \in VerifyOps
                /\ last.by = i
                /\ \E e \in held :
                       /\ e.by = i
                       /\ e.token = last.arg
                       /\ (e.op = "gen_access_token")
                              = (last.op = "verify_access_token")
                       /\ last.at <= e.token.payload.exp)
                   => last.res.ok

\* a service that derived its public key has verified a token it issued
C17_Witness ==
    /\ DerivesPublicKey(1)
    /\ last.op = "verify_refresh_token"
    /\ last.res.ok
    /\ \E e \in held : e.by = 1 /\ e.token = last.arg

\* the base64url text, without padding, of the big-endian modulus of each key
\* pair: 3233 is 0C A1, 64507 is FB FB
ModulusText(k) ==
    CASE k = "k1" -> "DKE"
      [] k = "k2" -> "-_s"
      [] OTHER -> ""

\* C18: in every reachable state generate_jwks returns a document with
\* exactly one entry, with kty "RSA", use "sig", alg "RS256" and the fixed
\* kid, whose n and e are the base64url texts of the modulus and exponent of
\* the public key that the verify operations use; the result is a function
\* of that key alone, so every call returns the same.
C18_JwksPublishesActiveKey ==
    last.op = "generate_jwks" =>
        LET active == DecodingKey_from_rsa_pem(svc[last.by].public_key)
        IN /\ active.ok
           /\ last.res = Ok([keys |-> <<[kty |-> "RSA",
                                         use |-> "sig",
                                         alg |-> "RS256",
                                         kid |-> "exchange_api_key_1",
                                         n |-> ModulusText(active.val),
                                         e |-> "AQAB"]>>])

\* the key set of a service whose public key is k2 has been rendered
C18_Witness ==
    /\ last.op = "generate_jwks"
    /\ last.res.ok
    /\ Len(last.res.val.keys) = 1
    /\ last.res.val.keys[1].n = "-_s"

\* the texts that are private key material of some key pair: the private
\* exponent and the primes, in the encoding a JWK would give them
PrivateTexts ==
    UNION {{URL_SAFE_NO_PAD_encode(to_bytes_be(PrivateExponent(k)))}
           \cup {URL_SAFE_NO_PAD_encode(to_bytes_be(p)) : p \in Primes(k)}
           : k \in KeyIds}

\* the texts in the header and the payload of a token
TextsOfToken(token) ==
    {token.header[f] : f \in DOMAIN token.header}
    \cup {token.payload[f] :
             f \in DOMAIN token.payload \cap
                   {"sub", "email", "iss", "token_type", "jti"}}
    \cup (IF "scope" \in DOMAIN token.payload
          THEN {token.payload.scope[k] : k \in 1..Len(token.payload.scope)}
          ELSE {})

\* the claims of an issued token, as its inputs and its instant give them
ClaimsFromInputs(e) ==
    IF e.op = "gen_access_token"
    THEN {[sub |-> to_string(e.user_id), email |-> e.email,
           exp |-> e.at + AccessLifetime, iat |-> e.at,
           iss |-> "exchange_api", token_type |-> "Access",
           scope |-> e.scopes]}
    ELSE {[sub |-> to_string(e.user_id), email |-> e.email,
           exp |-> e.at + RefreshLifetime, iat |-> e.at,
           iss |-> "exchange_api", token_type |-> "Refresh",
           jti |-> jti] : jti \in JtiSpace}

\* C19: in every reachable state no issued access or refresh token, in
\* header or payload, and no JWKS document returned by generate_jwks or
\* written to public_keys.json contains private key material: header and
\* payload are given by the inputs and the instant of issuance alone, whatever
\* the key, and a JWKS entry has the fields kty, use, alg, kid, n and e only,
\* n and e being those of a public key.
C19_PrivateKeyConfined ==
    /\ \A e \in Tokens :
           /\ e.token.header = [alg |-> "RS256", kid |-> "exchange_api_key_1"]
           /\ e.token.payload \in ClaimsFromInputs(e)
           /\ TextsOfToken(e.token) \cap PrivateTexts = {}
    /\ \A j \in JwksEntries :
           /\ DOMAIN j = {"kty", "use", "alg", "kid", "n", "e"}
           /\ {j[f] : f \in DOMAIN j} \cap PrivateTexts = {}
           /\ j.n \in {ModulusText(k) : k \in KeyIds}
           /\ j.e = "AQAB"

\* a service that generated its key pair holds an issued token and has just
\* rendered its key set, public_keys.json being written
C19_Witness ==
    /\ keygen[1] = 1
    /\ held # {}
    /\ last.op = "generate_jwks" /\ last.res.ok
    /\ WrittenTo("public_keys.json") # {}
    /\ now > StartTime

\* C20: generate_key_pair is invoked at most once per process, and only by
\* serve's call of from_config before the server accepts requests: no step
\* of a process that is past startup generates a key pair or replaces the
\* keys of its AuthService.
C20_KeyGenerationAtStartupOnly ==
    /\ [](\A i \in Instances : keygen[i] <= 1)
    /\ [][\A i \in Instances :
             (keygen'[i] # keygen[i] \/ svc'[i] # svc[i])
                 => (pc[i] = "boot" /\ last.op = "none" /\ held = {})]_vars

\* a process that generated its key pair at startup has since handled
\* requests
C20_Witness ==
    /\ keygen[1] = 1
    /\ pc[1] = "serving"
    /\ held # {}
    /\ last.op = "generate_jwks"

(***************************************************************************)
(* Concurrency, frame and statelessness of the request-time operations     *)
(***************************************************************************)
\* C21 (under SpecConcurrent): under any interleaving of concurrent
\* gen_access_token, gen_refresh_token, verify_access_token,
\* verify_refresh_token, refresh_access_token and generate_jwks calls on the
\* shared AuthService, the key pair is never modified and each call returns
\* what it would return if run alone at the same instant.
C21_ConcurrencySafe ==
    /\ [](\A k \in Tasks :
             tasks[k].status = "done" => tasks[k].res = tasks[k].alone)
    /\ [][svc' = svc]_vars

\* a call that began at a later instant has returned while a call of the
\* other task, begun at the start, is still running
C21_Witness ==
    /\ tasks[1].status = "done"
    /\ tasks[1].op = "refresh_access_token"
    /\ tasks[1].res.ok
    /\ tasks[2].status = "running"
    /\ tasks[2].at < tasks[1].at

\* the operations a request can reach on the AuthService
RequestOps ==
    {"gen_access_token", "gen_refresh_token", "gen_token_pair",
     "verify_access_token", "verify_refresh_token", "refresh_access_token",
     "has_scope", "has_admin_scope", "generate_jwks"}

\* C22 (under SpecRequests): gen_access_token, gen_refresh_token,
\* gen_token_pair, the verify operations, refresh_access_token and
\* generate_jwks leave the key pair, the files keys.json and
\* public_keys.json and every other piece of service state unchanged, when
\* they succeed and when they fail.
C22_RequestsLeaveStateUnchanged ==
    [][(last.op = "none" /\ last'.op \in RequestOps)
          => /\ svc' = svc
             /\ fs' = fs
             /\ keygen' = keygen
             /\ config' = config
             /\ pc' = pc
             /\ users' = users]_vars

\* a refresh has just failed on a process that has its files written, after
\* a token pair was issued
C22_Witness ==
    /\ last.op = "refresh_access_token"
    /\ ~last.res.ok
    /\ held # {}
    /\ WrittenTo("public_keys.json") # {}

\* C23 (under SpecRevocation): once a refresh token has been issued,
\* verify_refresh_token and refresh_access_token accept it at every instant
\* before its exp, whatever happens in between: further issuance, earlier
\* uses of the same token, logins, or the deactivation of its subject.
C23_NoRevocation ==
    /\ \A e \in held :
           e.op = "gen_refresh_token" =>
               \A t \in Clock :
                   (now <= t /\ t < e.token.payload.exp) =>
                       /\ verify_refresh_token(e.by, e.token, t).ok
                       /\ \A scopes \in ScopeLists :
                              refresh_access_token(e.by, e.token, scopes, t).ok
    /\ (/\ last.op = "verify_refresh_token"
        /\ \E e \in held : /\ e.op = "gen_refresh_token"
                            /\ e.token = last.arg
                            /\ last.at < e.token.payload.exp)
           => last.res.ok
    /\ (/\ last.op = "refresh_access_token"
        /\ \E e \in held : /\ e.op = "gen_refresh_token"
                            /\ e.token = last.arg.token
                            /\ last.at < e.token.payload.exp)
           => last.res.ok

\* a user logged in and was then deactivated; later the refresh token of
\* that login has been exchanged for an access token
C23_Witness ==
    /\ last.op = "refresh_access_token"
    /\ last.res.ok
    /\ last.at > StartTime
    /\ \E k \in 1..Len(users) :
           /\ ~users[k].is_active
           /\ last.arg.token.payload.sub = to_string(users[k].id)

\* C24 (under SpecRequests): refresh_access_token on a correctly signed,
\* unexpired Refresh token whose sub is not a valid UUID string returns the
\* error InvalidToken and issues no access token.
C24_MalformedSubject ==
    (/\ last.op = "refresh_access_token"
     /\ last.arg.token.header.alg = "RS256"
     /\ last.arg.token.sig =
            Sign("RS256", svc[last.by].private_key.key,
                 <<last.arg.token.header, last.arg.token.payload>>)
     /\ last.arg.token.payload.token_type = "Refresh"
     /\ last.at <= last.arg.token.payload.exp
     /\ \A u \in UserIds : to_string(u) # last.arg.token.payload.sub)
        => last.res = Err("InvalidToken")

\* a Refresh token signed by the key of the service, with the sub
\* "not-a-uuid", has been presented before its exp
C24_Witness ==
    /\ last.op = "refresh_access_token"
    /\ last.arg.token.payload.token_type = "Refresh"
    /\ last.arg.token.payload.sub = "not-a-uuid"
    /\ last.arg.token.sig.key = svc[last.by].private_key.key
    /\ last.at <= last.arg.token.payload.exp
    /\ ~last.res.ok

(***************************************************************************)
(* Login and the users API, under SpecUsers                                *)
(***************************************************************************)
\* the row the query of the last login returned
Fetched == users[last.arg.row]

\* C25: handle_login returns a token pair only if a user row with the
\* e-mail of the request exists, is active, and stores the SHA-256 hex digest
\* of the password supplied; otherwise no token is issued: an ill-formed
\* e-mail gives Validation, an unknown e-mail or a missing or different
\* hash InvalidCredentials, an inactive user Unauthorized.  After
\* delete_user(id) has succeeded no login of that user succeeds.
C25_LoginGate ==
    last.op = "handle_login" =>
        LET req == last.arg.login_req
        IN /\ last.res.ok =>
                  /\ last.arg.row # 0
                  /\ Fetched.email = req.email
                  /\ Fetched.is_active
                  /\ Fetched.password_hash = Sha256Hex(req.password)
                  /\ last.res.val.user.id = Fetched.id
           /\ req.email = "not-an-email" => last.res = Err("Validation")
           /\ (req.email # "not-an-email" /\ last.arg.found = {})
                  => last.res = Err("InvalidCredentials")
           /\ (req.email # "not-an-email" /\ last.arg.row # 0)
                  => /\ ~Fetched.is_active => last.res = Err("Unauthorized")
                     /\ (/\ Fetched.is_active
                         /\ Fetched.password_hash # Sha256Hex(req.password))
                            => last.res = Err("InvalidCredentials")
                     /\ (/\ Fetched.is_active
                         /\ Fetched.password_hash = Sha256Hex(req.password))
                            => last.res.ok

\* a user that was deleted (the administrator, whose row was made active)
\* has tried to log in with the right password and was refused
C25_Witness ==
    /\ last.op = "handle_login"
    /\ last.arg.row # 0
    /\ ~Fetched.is_active
    /\ Fetched.password_hash = Sha256Hex(last.arg.login_req.password)
    /\ Fetched.role = "admin"
    /\ last.res = Err("Unauthorized")

\* C26: the access token of a successful handle_login has sub equal to the
\* id of the user, email equal to the e-mail of the user, and scope equal to
\* what the scope table gives for the role stored for that user at the time
\* of the login; the refresh token of the response has the same sub and
\* email.
C26_LoginScopesFollowRole ==
    (last.op = "handle_login" /\ last.res.ok) =>
        LET access == last.res.val.access_token.payload
            refresh == last.res.val.refresh_token.payload
        IN /\ access.token_type = "Access"
           /\ access.sub = to_string(Fetched.id)
           /\ access.email = Fetched.email
           /\ access.scope =
                  (CASE Fetched.role = "admin" -> <<"Viewer", "Manager", "Admin">>
                     [] Fetched.role = "manager" -> <<"Viewer", "Manager">>
                     [] OTHER -> <<"Viewer">>)
           /\ refresh.token_type = "Refresh"
           /\ refresh.sub = access.sub
           /\ refresh.email = access.email

\* a manager has logged in
C26_Witness ==
    /\ last.op = "handle_login"
    /\ last.res.ok
    /\ Fetched.role = "manager"
    /\ last.res.val.access_token.payload.scope = <<"Viewer", "Manager">>

\* the rows whose user the credentials of the last login are those of: the
\* active rows with the e-mail and the password of the request
Submitters ==
    {k \in 1..Len(users) :
        /\ users[k].is_active
        /\ users[k].email = last.arg.login_req.email
        /\ users[k].password_hash = Sha256Hex(last.arg.login_req.password)}

\* the steps of the users API change no role, change is_active only in
\* delete_user and only to false, and add rows only in create_user, with the
\* role "viewer"
UsersApiKeepsPrivileges ==
    /\ Len(users') >= Len(users)
    /\ \A k \in 1..Len(users) :
           /\ users'[k].id = users[k].id
           /\ users'[k].role = users[k].role
           /\ users'[k].is_active # users[k].is_active
                  => (last'.op = "delete_user" /\ ~users'[k].is_active)
    /\ Len(users') > Len(users)
           => /\ last'.op = "create_user"
              /\ Len(users') = Len(users) + 1
              /\ users'[Len(users')].role = "viewer"

\* C27: after any sequence of create_user, update_user and delete_user
\* calls every user created through the API has the role "viewer", no call
\* changes the role of an existing user, and is_active changes only by
\* delete_user setting it to false; hence the login of a user created
\* through the API (a row with the role "viewer": the rows made by SQL
\* scripts have other roles) always yields an access token with scope
\* exactly [Viewer].
C27_NoPrivilegeChange ==
    /\ [][UsersApiKeepsPrivileges]_vars
    /\ [](\A k \in 1..Len(users) :
             (/\ last.op = "handle_login"
              /\ last.res.ok
              /\ k \in Submitters
              /\ users[k].role = "viewer")
                 => last.res.val.access_token.payload.scope = <<"Viewer">>)

\* C29: after any sequence of create_user calls, every active user who
\* submits their own e-mail and correct password to handle_login receives a
\* token pair whose sub is the id of that user, also when another merchant
\* has a user with the same e-mail.
C29_LoginReachesOwnAccount ==
    last.op = "handle_login" =>
        \A k \in Submitters :
            /\ last.res.ok
            /\ last.res.val.access_token.payload.sub = to_string(users[k].id)
            /\ last.res.val.refresh_token.payload.sub = to_string(users[k].id)

\* C28: for every service that from_config returns successfully, also when
\* both a private and a public key are configured, every token the service
\* issues is accepted by the matching verify operation of the same service
\* at every instant up to its exp, and the key that generate_jwks publishes
\* is the public half of the key that signs.
C28_SelfConsistent ==
    \A i \in Instances :
        pc[i] = "serving" =>
            /\ \A e \in Tokens :
                   e.by = i =>
                       \A t \in Clock :
                           (e.at <= t /\ t <= e.token.payload.exp)
                               => MatchingVerify(i, e, t).ok
            /\ (last.op = "generate_jwks" /\ last.by = i /\ last.res.ok)
                   => LET signing == RsaPrivateKey_from_pkcs8_pem(svc[i].private_key)
                      IN /\ signing.ok
                         /\ last.res.val.keys[1].n = ModulusText(signing.val)

\* C30: the exp of every access token that refresh_access_token(r, S)
\* returns is not later than the exp of the refresh token r it was minted
\* from.
C30_AccessWithinRefresh ==
    (last.op = "refresh_access_token" /\ last.res.ok)
        => last.res.val.payload.exp <= last.arg.token.payload.exp

====
